---- MODULE Spec2Model ----
(***************************************************************************)
(* Model of the linked-list engine of dsa-visualizer/js/linkedlist.js.     *)
(*                                                                         *)
(* The heap is three parallel sequences (data, next, prev) indexed by node *)
(* identity; `new Node(data)` appends one entry to each.  Nodes that are   *)
(* unlinked stay in the heap with whatever links the code left in them.    *)
(* A list is the record [head, isDoubly, data, next, prev].                *)
(***************************************************************************)
EXTENDS Integers, Sequences, FiniteSets, TLC

\* ------------------------------------------------------------------ bounds
MaxNodes == 3        \* number of `new Node` allocations explored
MaxNeg == 1          \* how far below 0 a caller-supplied position may go

\* Payloads a caller passes.  The engine only stores payloads and compares
\* them for equality, so two distinct ones show every outcome of a comparison.
Values == {"a", "b"}
Positions == (0 - MaxNeg)..(MaxNodes + 1)

\* ------------------------------------------------------------- JS values
NULL == 0                    \* the null reference (Node.next / Node.prev / head)
NullRet == "<null>"          \* `return null` of the delete operations
Undefined == "<undefined>"   \* result of a method with no return value
NoValue == "<none>"          \* history only: the call took no value argument
NotFound == 0 - 1            \* `return -1` of search

VARIABLES
    list,      \* LinkedListVisualizer.list: the engine's list and its nodes
    last,      \* history: the most recent engine call
    prior,     \* history: the call before it, when the two are read together
    ref,       \* the array reference model
    shell,     \* main.js closure: currentStructure, animationSpeed
    viz,       \* LinkedListVisualizer statics: animationSpeed, isDoubly
    dom,       \* the page: operations panel, visualization area, notices
    log,       \* the most recent event handler: what it read and what it did
    travs,     \* the traverse() calls suspended at their await
    chat       \* the chat panel: its messages and the requests in flight

engineVars == <<list, last, prior, ref>>
uiVars == <<shell, viz, dom, log, travs, chat>>
vars == <<list, last, prior, ref, shell, viz, dom, log, travs, chat>>

\* ------------------------------------------------------------------ Node
\* constructor(data): this.data = data; this.next = null; this.prev = null
Node(L, data) ==
    [L EXCEPT !.data = Append(@, data),
              !.next = Append(@, NULL),
              !.prev = Append(@, NULL)]

\* ------------------------------------------------------------ LinkedList
\* constructor(isDoubly): this.head = null; this.isDoubly = isDoubly
LinkedList(isDoubly) ==
    [head |-> NULL, isDoubly |-> isDoubly,
     data |-> <<>>, next |-> <<>>, prev |-> <<>>]

\* insertAtBeginning without `newNode.next = this.head` in the singly branch
insertAtBeginning_dropTail(L, data) ==
    LET newNode == Len(L.data) + 1
        L1 == Node(L, data)
        L2 == IF L1.isDoubly
              THEN LET a == [L1 EXCEPT !.next[newNode] = L1.head]
                   IN  IF a.head # NULL
                       THEN [a EXCEPT !.prev[a.head] = newNode]
                       ELSE a
              ELSE L1
    IN  [L2 EXCEPT !.head = newNode]

insertAtBeginning(L, data) ==
    LET newNode == Len(L.data) + 1
        L1 == Node(L, data)
        L2 == IF L1.isDoubly
              THEN LET a == [L1 EXCEPT !.next[newNode] = L1.head]
                   IN  IF a.head # NULL
                       THEN [a EXCEPT !.prev[a.head] = newNode]
                       ELSE a
              ELSE [L1 EXCEPT !.next[newNode] = L1.head]
    IN  [L2 EXCEPT !.head = newNode]

\* while (current.next) current = current.next;
RECURSIVE lastNode(_, _)
lastNode(L, current) ==
    IF L.next[current] # NULL THEN lastNode(L, L.next[current]) ELSE current

\* insertAtEnd without the walk to the last node: links after head
insertAtEnd_noWalk(L, data) ==
    LET newNode == Len(L.data) + 1
        L1 == Node(L, data)
    IN  IF L1.head = NULL
        THEN [L1 EXCEPT !.head = newNode]
        ELSE LET current == L1.head
                 L2 == [L1 EXCEPT !.next[current] = newNode]
             IN  IF L2.isDoubly
                 THEN [L2 EXCEPT !.prev[newNode] = current]
                 ELSE L2

\* insertAtEnd that also links the new node back to head (a circular list)
insertAtEnd_circular(L, data) ==
    LET newNode == Len(L.data) + 1
        L1 == Node(L, data)
    IN  IF L1.head = NULL
        THEN [L1 EXCEPT !.head = newNode]
        ELSE LET current == lastNode(L1, L1.head)
                 L2 == [L1 EXCEPT !.next[current] = newNode,
                                  !.next[newNode] = L1.head]
             IN  IF L2.isDoubly
                 THEN [L2 EXCEPT !.prev[newNode] = current]
                 ELSE L2

insertAtEnd(L, data) ==
    LET newNode == Len(L.data) + 1
        L1 == Node(L, data)
    IN  IF L1.head = NULL
        THEN [L1 EXCEPT !.head = newNode]
        ELSE LET current == lastNode(L1, L1.head)
                 L2 == [L1 EXCEPT !.next[current] = newNode]
             IN  IF L2.isDoubly
                 THEN [L2 EXCEPT !.prev[newNode] = current]
                 ELSE L2

\* the insert walk stopping at the last node instead of running off the end
RECURSIVE insertWalk_clamp(_, _, _, _)
insertWalk_clamp(L, current, index, position) ==
    IF current # NULL /\ L.next[current] # NULL /\ index < position - 1
    THEN insertWalk_clamp(L, L.next[current], index + 1, position)
    ELSE current

\* while (current && index < position - 1) { current = current.next; index++; }
RECURSIVE insertWalk(_, _, _, _)
insertWalk(L, current, index, position) ==
    IF current # NULL /\ index < position - 1
    THEN insertWalk(L, L.next[current], index + 1, position)
    ELSE current

\* insertAtPosition without the `position === 0` case
insertAtPosition_noZeroCase(L, data, position) ==
    LET newNode == Len(L.data) + 1
        L1 == Node(L, data)
        current == insertWalk(L1, L1.head, 0, position)
    IN  IF current = NULL
        THEN L1
        ELSE LET L2 == [L1 EXCEPT !.next[newNode] = L1.next[current]]
                 L3 == [L2 EXCEPT !.next[current] = newNode]
             IN  IF L3.isDoubly
                 THEN LET L4 == IF L3.next[newNode] # NULL
                                THEN [L3 EXCEPT !.prev[L3.next[newNode]] = newNode]
                                ELSE L3
                      IN  [L4 EXCEPT !.prev[newNode] = current]
                 ELSE L3

insertAtPosition(L, data, position) ==
    IF position = 0
    THEN insertAtBeginning(L, data)
    ELSE LET newNode == Len(L.data) + 1
             L1 == Node(L, data)
             current == insertWalk(L1, L1.head, 0, position)
         IN  IF current = NULL
             THEN L1
             ELSE LET L2 == [L1 EXCEPT !.next[newNode] = L1.next[current]]
                      L3 == [L2 EXCEPT !.next[current] = newNode]
                  IN  IF L3.isDoubly
                      THEN LET L4 == IF L3.next[newNode] # NULL
                                     THEN [L3 EXCEPT !.prev[L3.next[newNode]] = newNode]
                                     ELSE L3
                           IN  [L4 EXCEPT !.prev[newNode] = current]
                      ELSE L3

deleteFromBeginning(L) ==
    IF L.head = NULL
    THEN [list |-> L, ret |-> NullRet]
    ELSE LET deleted == L.head
             L1 == [L EXCEPT !.head = L.next[L.head]]
             L2 == IF L1.isDoubly /\ L1.head # NULL
                   THEN [L1 EXCEPT !.prev[L1.head] = NULL]
                   ELSE L1
         IN  [list |-> L2, ret |-> L2.data[deleted]]

\* while (current.next.next) current = current.next;
RECURSIVE secondToLast(_, _)
secondToLast(L, current) ==
    IF L.next[L.next[current]] # NULL
    THEN secondToLast(L, L.next[current])
    ELSE current

\* deleteFromEnd without `this.head = null` in the one-node case
deleteFromEnd_keepsSingle(L) ==
    IF L.head = NULL
    THEN [list |-> L, ret |-> NullRet]
    ELSE IF L.next[L.head] = NULL
    THEN LET deleted == L.head
         IN  [list |-> L, ret |-> L.data[deleted]]
    ELSE LET current == secondToLast(L, L.head)
             deleted == L.next[current]
             L1 == [L EXCEPT !.next[current] = NULL]
             L2 == IF L1.isDoubly
                   THEN [L1 EXCEPT !.prev[deleted] = NULL]
                   ELSE L1
         IN  [list |-> L2, ret |-> L2.data[deleted]]

deleteFromEnd(L) ==
    IF L.head = NULL
    THEN [list |-> L, ret |-> NullRet]
    ELSE IF L.next[L.head] = NULL
    THEN LET deleted == L.head
         IN  [list |-> [L EXCEPT !.head = NULL], ret |-> L.data[deleted]]
    ELSE LET current == secondToLast(L, L.head)
             deleted == L.next[current]
             L1 == [L EXCEPT !.next[current] = NULL]
             L2 == IF L1.isDoubly
                   THEN [L1 EXCEPT !.prev[deleted] = NULL]
                   ELSE L1
         IN  [list |-> L2, ret |-> L2.data[deleted]]

\* the delete walk with `index < position` as its bound
RECURSIVE deleteWalk_offByOne(_, _, _, _)
deleteWalk_offByOne(L, current, index, position) ==
    IF current # NULL /\ index < position
    THEN deleteWalk_offByOne(L, L.next[current], index + 1, position)
    ELSE current

\* while (current && index < position - 1) { current = current.next; index++; }
RECURSIVE deleteWalk(_, _, _, _)
deleteWalk(L, current, index, position) ==
    IF current # NULL /\ index < position - 1
    THEN deleteWalk(L, L.next[current], index + 1, position)
    ELSE current

\* deleteAtPosition without `deleted.next.prev = current`
deleteAtPosition_noPrevRelink(L, position) ==
    IF position = 0
    THEN deleteFromBeginning(L)
    ELSE LET current == deleteWalk(L, L.head, 0, position)
         IN  IF current = NULL \/ L.next[current] = NULL
             THEN [list |-> L, ret |-> NullRet]
             ELSE LET deleted == L.next[current]
                      L1 == [L EXCEPT !.next[current] = L.next[deleted]]
                  IN  [list |-> L1, ret |-> L1.data[deleted]]

\* deleteAtPosition returning `current.data` instead of `deleted.data`
deleteAtPosition_returnsPred(L, position) ==
    IF position = 0
    THEN deleteFromBeginning(L)
    ELSE LET current == deleteWalk(L, L.head, 0, position)
         IN  IF current = NULL \/ L.next[current] = NULL
             THEN [list |-> L, ret |-> NullRet]
             ELSE LET deleted == L.next[current]
                      L1 == [L EXCEPT !.next[current] = L.next[deleted]]
                      L2 == IF L1.isDoubly /\ L1.next[deleted] # NULL
                            THEN [L1 EXCEPT !.prev[L1.next[deleted]] = current]
                            ELSE L1
                  IN  [list |-> L2, ret |-> L2.data[current]]

deleteAtPosition(L, position) ==
    IF position = 0
    THEN deleteFromBeginning(L)
    ELSE LET current == deleteWalk(L, L.head, 0, position)
         IN  IF current = NULL \/ L.next[current] = NULL
             THEN [list |-> L, ret |-> NullRet]
             ELSE LET deleted == L.next[current]
                      L1 == [L EXCEPT !.next[current] = L.next[deleted]]
                      L2 == IF L1.isDoubly /\ L1.next[deleted] # NULL
                            THEN [L1 EXCEPT !.prev[L1.next[deleted]] = current]
                            ELSE L1
                  IN  [list |-> L2, ret |-> L2.data[deleted]]

\* Payloads are JS strings, written as themselves, or JS numbers, written
\* with a leading "#" ("#5" is the number 5, "5" the one-character string).
IsNumber(x) == x \in {"#5", "#7"}

\* ToNumber(x) is not NaN
IsNumeric(x) == x \in {"#5", "#7", "5", "7", "5.0"}

\* ToNumber on the payloads that are numeric
ToNumber(x) ==
    CASE x \in {"#5", "5", "5.0"} -> 5
      [] x \in {"#7", "7"} -> 7

\* `===` in place of `==`
LooseEq_strict(a, b) == a = b

\* `current.data == data`: operands of one type compare as they are, a
\* string against a number compares ToNumber(string) with the number
LooseEq(a, b) ==
    IF IsNumber(a) = IsNumber(b)
    THEN a = b
    ELSE IsNumeric(a) /\ IsNumeric(b) /\ ToNumber(a) = ToNumber(b)

RECURSIVE searchLoop(_, _, _, _)
searchLoop(L, current, position, data) ==
    IF current = NULL THEN NotFound
    ELSE IF LooseEq(L.data[current], data) THEN position
    ELSE searchLoop(L, L.next[current], position + 1, data)

\* search counting positions from 1
search_oneBased(L, data) == searchLoop(L, L.head, 1, data)

search(L, data) == searchLoop(L, L.head, 0, data)

RECURSIVE toArrayLoop(_, _, _)
toArrayLoop(L, current, arr) ==
    IF current = NULL THEN arr
    ELSE toArrayLoop(L, L.next[current], Append(arr, L.data[current]))

toArray(L) == toArrayLoop(L, L.head, <<>>)

\* A call of search / toArray as its caller sees it: the list it leaves
\* behind (neither method assigns to head or to a node) and what it returns.
\* search that moves the node it found to the front
searchCall_moveToFront(L, data) ==
    LET position == search(L, data)
    IN  IF position <= 0
        THEN [list |-> L, ret |-> position]
        ELSE [list |-> insertAtBeginning(deleteAtPosition(L, position).list, data),
              ret |-> position]

searchCall(L, data) == [list |-> L, ret |-> search(L, data)]

toArrayCall(L) == [list |-> L, ret |-> toArray(L)]

\* ------------------------------------------------ property-access receivers
\* The references whose properties each operation reads or writes on the
\* list L (a property access on null raises a TypeError).

\* while (current && index < position - 1) { current = current.next; ... }
RECURSIVE walkReceivers(_, _, _, _)
walkReceivers(L, current, index, position) ==
    IF current # NULL /\ index < position - 1
    THEN {current} \cup walkReceivers(L, L.next[current], index + 1, position)
    ELSE {}

insertAtBeginningReceivers(L) ==
    IF L.isDoubly /\ L.head # NULL THEN {L.head} ELSE {}

\* insertAtPosition without `if (!current) return;`
insertAtPositionReceivers_noReturn(L, position) ==
    IF position = 0
    THEN insertAtBeginningReceivers(L)
    ELSE LET current == insertWalk(L, L.head, 0, position)
         IN  walkReceivers(L, L.head, 0, position) \cup {current}

insertAtPositionReceivers(L, position) ==
    IF position = 0
    THEN insertAtBeginningReceivers(L)
    ELSE LET current == insertWalk(L, L.head, 0, position)
         IN  walkReceivers(L, L.head, 0, position) \cup
             (IF current = NULL
              THEN {}
              ELSE {current} \cup
                   (IF L.isDoubly /\ L.next[current] # NULL
                    THEN {L.next[current]}
                    ELSE {}))

deleteFromBeginningReceivers(L) ==
    IF L.head = NULL
    THEN {}
    ELSE {L.head} \cup
         (IF L.isDoubly /\ L.next[L.head] # NULL THEN {L.next[L.head]} ELSE {})

\* while (current.next.next) current = current.next;
RECURSIVE endWalkReceivers(_, _)
endWalkReceivers(L, current) ==
    IF current = NULL
    THEN {NULL}
    ELSE IF L.next[current] = NULL
    THEN {current, NULL}
    ELSE {current, L.next[current]} \cup
         (IF L.next[L.next[current]] # NULL
          THEN endWalkReceivers(L, L.next[current])
          ELSE {})

deleteFromEndReceivers(L) ==
    IF L.head = NULL
    THEN {}
    ELSE IF L.next[L.head] = NULL
    THEN {L.head}
    ELSE endWalkReceivers(L, L.head)

deleteAtPositionReceivers(L, position) ==
    IF position = 0
    THEN deleteFromBeginningReceivers(L)
    ELSE LET current == deleteWalk(L, L.head, 0, position)
         IN  walkReceivers(L, L.head, 0, position) \cup
             (IF current = NULL
              THEN {}
              ELSE {current} \cup
                   (IF L.next[current] = NULL
                    THEN {}
                    ELSE LET deleted == L.next[current]
                         IN  {deleted} \cup
                             (IF L.isDoubly /\ L.next[deleted] # NULL
                              THEN {L.next[deleted]}
                              ELSE {})))

\* ------------------------------------------------- array reference model
\* The sequence an array-based list holds after the same call: an insert at
\* a position beyond the length and a delete at or beyond it change nothing.
\* The reference is defined for positions >= 0; after a call with a negative
\* position it is started again from the contents the list then has.
RefInsertAt(s, p, v) ==
    IF p > Len(s) THEN s
    ELSE SubSeq(s, 1, p) \o <<v>> \o SubSeq(s, p + 1, Len(s))

RefDeleteAt(s, p) ==
    IF p >= Len(s) THEN s
    ELSE SubSeq(s, 1, p) \o SubSeq(s, p + 2, Len(s))

\* ---------------------------------------------------------- call history
\* One engine call as its caller sees it: the method, its arguments, what it
\* returned, and the list it was applied to.
Call(op, val, pos, ret, idx) ==
    [op |-> op, val |-> val, pos |-> pos, ret |-> ret, idx |-> idx,
     arr |-> <<>>, pre |-> list]

\* No call recorded (also: the call before `last` was not an insertAtPosition).
NoCall ==
    [op |-> "none", val |-> NoValue, pos |-> 0, ret |-> Undefined, idx |-> 0,
     arr |-> <<>>, pre |-> LinkedList(FALSE)]

\* The engine used on its own: no page, no visualizer, nothing in flight.
NoShell == [currentStructure |-> "<none>", animationSpeed |-> 0]
NoViz == [animationSpeed |-> 0, isDoubly |-> FALSE]
NoDom == [ops |-> "<none>", area |-> "<none>", boxes |-> <<>>,
          complexity |-> "<none>"]
NoNotice == [text |-> "<none>", pos |-> 0, val |-> NoValue]
NoLog == [handler |-> "<none>", value |-> NoValue, position |-> NoValue,
          steps |-> <<>>, notice |-> NoNotice]

\* AIChatBot before it is used: no message, no request in flight.  `sent`
\* is bookkeeping: the number of user messages sent so far.
NoChat == [messages |-> <<>>, isLoading |-> FALSE, pending |-> <<>>, sent |-> 0]

Standalone ==
    /\ shell = NoShell
    /\ viz = NoViz
    /\ dom = NoDom
    /\ log = NoLog
    /\ travs = <<>>
    /\ chat = NoChat

CanAllocate == Len(list.data) < MaxNodes

Init ==
    /\ \E isDoubly \in BOOLEAN : list = LinkedList(isDoubly)
    /\ last = [op |-> "constructor", val |-> NoValue, pos |-> 0,
               ret |-> Undefined, idx |-> 0, arr |-> <<>>, pre |-> list]
    /\ prior = NoCall
    /\ ref = <<>>
    /\ Standalone

InsertAtBeginning ==
    \E v \in Values :
        /\ CanAllocate
        /\ list' = insertAtBeginning(list, v)
        /\ last' = Call("insertAtBeginning", v, 0, Undefined, 0)
        /\ prior' = NoCall
        /\ ref' = RefInsertAt(ref, 0, v)
        /\ UNCHANGED uiVars

InsertAtEnd ==
    \E v \in Values :
        /\ CanAllocate
        /\ list' = insertAtEnd(list, v)
        /\ last' = Call("insertAtEnd", v, 0, Undefined, 0)
        /\ prior' = NoCall
        /\ ref' = RefInsertAt(ref, Len(ref), v)
        /\ UNCHANGED uiVars

InsertAtPosition ==
    \E v \in Values, p \in Positions :
        /\ CanAllocate
        /\ list' = insertAtPosition(list, v, p)
        /\ last' = Call("insertAtPosition", v, p, Undefined, 0)
        /\ prior' = NoCall
        /\ ref' = IF p >= 0 THEN RefInsertAt(ref, p, v) ELSE toArray(list')
        /\ UNCHANGED uiVars

DeleteFromBeginning ==
    LET r == deleteFromBeginning(list)
    IN  /\ list' = r.list
        /\ last' = Call("deleteFromBeginning", NoValue, 0, r.ret, 0)
        /\ prior' = NoCall
        /\ ref' = RefDeleteAt(ref, 0)
        /\ UNCHANGED uiVars

DeleteFromEnd ==
    LET r == deleteFromEnd(list)
    IN  /\ list' = r.list
        /\ last' = Call("deleteFromEnd", NoValue, 0, r.ret, 0)
        /\ prior' = NoCall
        /\ ref' = IF ref # <<>> THEN RefDeleteAt(ref, Len(ref) - 1) ELSE ref
        /\ UNCHANGED uiVars

DeleteAtPosition ==
    \E p \in Positions :
        LET r == deleteAtPosition(list, p)
        IN  /\ list' = r.list
            /\ last' = Call("deleteAtPosition", NoValue, p, r.ret, 0)
            /\ prior' = IF last.op = "insertAtPosition" THEN last ELSE NoCall
            /\ ref' = IF p >= 0 THEN RefDeleteAt(ref, p) ELSE toArray(list')
            /\ UNCHANGED uiVars

SearchIn(payloads) ==
    \E v \in payloads :
        LET r == searchCall(list, v)
        IN  /\ list' = r.list
            /\ last' = Call("search", v, 0, Undefined, r.ret)
            /\ prior' = IF last.op = "search" /\ last.val = v THEN last ELSE NoCall
            /\ UNCHANGED ref
            /\ UNCHANGED uiVars

Search == SearchIn(Values)

ToArray ==
    LET r == toArrayCall(list)
    IN  /\ list' = r.list
        /\ last' = [Call("toArray", NoValue, 0, Undefined, 0) EXCEPT !.arr = r.ret]
        /\ prior' = IF last.op = "toArray" THEN last ELSE NoCall
        /\ UNCHANGED ref
        /\ UNCHANGED uiVars

Next ==
    \/ InsertAtBeginning
    \/ InsertAtEnd
    \/ InsertAtPosition
    \/ DeleteFromBeginning
    \/ DeleteFromEnd
    \/ DeleteAtPosition
    \/ Search
    \/ ToArray

Spec == Init /\ [][Next]_vars

\* ======================================================== the page shell
\* --------------------------------------------------------------- bounds
MaxUINodes == 2      \* `new Node` allocations per list explored on the page

UIPositions == (0 - MaxNeg)..(MaxUINodes + 1)

\* ---------------------------------------------------------- input texts
\* What the user may have typed into #list-value when a button is clicked.
ValueTexts == {"", " ", "a", " b "}

\* String.prototype.trim on those texts
Trim(text) ==
    CASE text \in {"", " "} -> ""
      [] text = "a" -> "a"
      [] text = " b " -> "b"

\* What #list-position (a number input) may hold when a button is clicked.
AllPositionTexts ==
    {"", ".5", "1.5", "-3", "-2", "-1", "0", "1", "2", "3", "4", "5", "6"}

\* isNaN(parseInt(text))
ParsesToNaN(text) == text \in {"", ".5"}

\* parseInt(text) on the texts it accepts
ParseInt(text) ==
    CASE text = "-3" -> 0 - 3
      [] text = "-2" -> 0 - 2
      [] text = "-1" -> 0 - 1
      [] text = "0" -> 0
      [] text \in {"1", "1.5"} -> 1
      [] text = "2" -> 2
      [] text = "3" -> 3
      [] text = "4" -> 4
      [] text = "5" -> 5
      [] text = "6" -> 6

PositionTexts ==
    {t \in AllPositionTexts : ParsesToNaN(t) \/ ParseInt(t) \in UIPositions}

\* -------------------------------------------------- LinkedListVisualizer
DefaultSpeed == 500

\* The node box with an arrow after the last node as well
NodeBox_arrowAlways(L, isDoubly, current) ==
    [data |-> L.data[current],
     prev |-> IF isDoubly
              THEN (IF L.prev[current] # NULL THEN "<" ELSE "null")
              ELSE "",
     next |-> IF L.next[current] # NULL
              THEN (IF isDoubly THEN ">" ELSE "->")
              ELSE "null",
     arrow |-> IF isDoubly THEN "<->" ELSE "->",
     highlighted |-> FALSE]

\* One .node-box of updateVisualization: the prev / data / next sections and
\* the arrow that follows it in its wrapper ("" where the markup has none).
NodeBox(L, isDoubly, current) ==
    [data |-> L.data[current],
     prev |-> IF isDoubly
              THEN (IF L.prev[current] # NULL THEN "<" ELSE "null")
              ELSE "",
     next |-> IF L.next[current] # NULL
              THEN (IF isDoubly THEN ">" ELSE "->")
              ELSE "null",
     arrow |-> IF L.next[current] # NULL
               THEN (IF isDoubly THEN "<->" ELSE "->")
               ELSE "",
     highlighted |-> FALSE]

\* while (current) { ...append a node wrapper...; current = current.next; }
RECURSIVE renderLoop(_, _, _, _)
renderLoop(L, isDoubly, current, boxes) ==
    IF current = NULL THEN boxes
    ELSE renderLoop(L, isDoubly, L.next[current],
                    Append(boxes, NodeBox(L, isDoubly, current)))

updateVisualization(d, L, v) ==
    IF L.head = NULL
    THEN [d EXCEPT !.area = "message", !.boxes = <<>>]
    ELSE [d EXCEPT !.area = "nodes",
                   !.boxes = renderLoop(L, v.isDoubly, L.head, <<>>)]

updateComplexity(d) == [d EXCEPT !.complexity = "list"]

\* highlightNode that only adds the class
highlightNode_addOnly(d, position) ==
    [d EXCEPT !.boxes =
        [i \in 1..Len(d.boxes) |->
            [d.boxes[i] EXCEPT !.highlighted = (@ \/ i - 1 = position)]]]

\* nodes.forEach((node, index) => index === position ? add : remove)
highlightNode(d, position) ==
    [d EXCEPT !.boxes =
        [i \in 1..Len(d.boxes) |->
            [d.boxes[i] EXCEPT !.highlighted = (i - 1 = position)]]]

\* setupUI: the operations panel becomes the list's inputs and buttons
setupUI(d) == [d EXCEPT !.ops = "list"]

\* The nodes that follow node `current` in L: the length of its .next chain.
RECURSIVE nodesAfter(_, _)
nodesAfter(L, current) ==
    IF L.next[current] = NULL THEN 0 ELSE 1 + nodesAfter(L, L.next[current])

\* A traverse() call suspended at its await keeps referring to the nodes of
\* the list it started on.  When that list is replaced no handler can reach
\* those nodes any more, so all that is left of them for the suspended call
\* is how many of them still follow its `current`.
Orphan(ts, L) ==
    [i \in 1..Len(ts) |->
        IF ts[i].live
        THEN [ts[i] EXCEPT !.live = FALSE, !.current = NULL,
                           !.rest = nodesAfter(L, ts[i].current)]
        ELSE ts[i]]

\* init that keeps the list it already has (`this.list = this.list || ...`)
VisualizerInit_keepsList(d, L, ts, animationSpeed, isDoubly) ==
    LET v == [animationSpeed |-> animationSpeed, isDoubly |-> isDoubly]
    IN  [list |-> L,
         viz |-> v,
         dom |-> updateComplexity(updateVisualization(setupUI(d), L, v)),
         travs |-> ts]

\* LinkedListVisualizer.init(area, ops, time, space, animationSpeed, isDoubly)
VisualizerInit(d, L, ts, animationSpeed, isDoubly) ==
    LET newList == LinkedList(isDoubly)
        v == [animationSpeed |-> animationSpeed, isDoubly |-> isDoubly]
    IN  [list |-> newList,
         viz |-> v,
         dom |-> updateComplexity(updateVisualization(setupUI(d), newList, v)),
         travs |-> Orphan(ts, L)]

\* ------------------------------------------- LinkedListVisualizer.traverse
MaxTraversals == 2   \* traverse() calls in flight at once

\* The locals of a traverse() call suspended at its await, and the delay its
\* pending setTimeout was given.  `alone` is bookkeeping: no other handler
\* has run since the call started.
Traversal(current, position, delay, alone) ==
    [current |-> current, position |-> position, live |-> TRUE,
     rest |-> 0, delay |-> delay, alone |-> alone]

TraverseLog(steps, notice) ==
    [NoLog EXCEPT !.handler = "traverse", !.steps = steps, !.notice = notice]

\* traverse() with a guard against a second call while one is in flight
traverse_guarded(L, d, ts, v) ==
    IF L.head = NULL
    THEN [dom |-> d, travs |-> ts,
          log |-> TraverseLog(<<"alert">>,
                              [NoNotice EXCEPT !.text = "List is empty!"])]
    ELSE IF ts # <<>>
    THEN [dom |-> d, travs |-> ts, log |-> TraverseLog(<<>>, NoNotice)]
    ELSE [dom |-> highlightNode(d, 0),
          travs |-> Append(ts, Traversal(L.head, 0, v.animationSpeed, ts = <<>>)),
          log |-> TraverseLog(<<"highlightNode", "await">>, NoNotice)]

\* traverse() from the click to its first await (or to its early return)
traverse(L, d, ts, v) ==
    IF L.head = NULL
    THEN [dom |-> d, travs |-> ts,
          log |-> TraverseLog(<<"alert">>,
                              [NoNotice EXCEPT !.text = "List is empty!"])]
    ELSE [dom |-> highlightNode(d, 0),
          travs |-> Append(ts, Traversal(L.head, 0, v.animationSpeed, ts = <<>>)),
          log |-> TraverseLog(<<"highlightNode", "await">>, NoNotice)]

\* a step that leaves the suspended call where it is
Step_stay(t, L, position, v) == t

\* current = current.next of a suspended call, with its new position and
\* the delay of the setTimeout it sets next (this.animationSpeed)
Step(t, L, position, v) ==
    IF t.live
    THEN [t EXCEPT !.current = L.next[t.current], !.position = position,
                   !.delay = v.animationSpeed]
    ELSE [t EXCEPT !.rest = t.rest - 1, !.position = position,
                   !.delay = v.animationSpeed]

\* The suspended calls without the i-th, in the order their timers were set
Others(ts, i) == [k \in 1..(Len(ts) - 1) |-> IF k < i THEN ts[k] ELSE ts[k + 1]]

\* The timer of the i-th suspended call can be the next to fire: no timer
\* set before it has a delay that is as short or shorter.
CanFire(ts, i) == \A j \in 1..(i - 1) : ts[j].delay > ts[i].delay

\* traverse() from the await of the i-th suspended call to its next await:
\* position++; current = current.next; then the loop test
resume(L, d, ts, i, v) ==
    LET t == ts[i]
        position == t.position + 1
        more == IF t.live THEN L.next[t.current] # NULL ELSE t.rest > 0
    IN  IF more
        THEN [dom |-> highlightNode(d, position),
              travs |-> Append(Others(ts, i), Step(t, L, position, v)),
              log |-> [NoLog EXCEPT !.handler = "timer",
                                    !.steps = <<"highlightNode", "await">>]]
        ELSE [dom |-> highlightNode(d, 0 - 1),
              travs |-> Others(ts, i),
              log |-> [NoLog EXCEPT !.handler = "timer",
                                    !.steps = <<"highlightNode">>]]

\* ------------------------------------ LinkedListVisualizer click handlers
\* Each handler is given the list, the page, the visualizer statics and the
\* texts in the inputs it reads; it yields the list and page it leaves, the
\* engine call it made (NoCall if none) and the record of what it did.
CallOn(L, op, val, pos, ret, idx) ==
    [op |-> op, val |-> val, pos |-> pos, ret |-> ret, idx |-> idx,
     arr |-> <<>>, pre |-> L]

Notice(text, pos, val) == [text |-> text, pos |-> pos, val |-> val]

Handled(L, d, call, handler, value, position, steps, notice) ==
    [list |-> L, dom |-> d, call |-> call,
     log |-> [handler |-> handler, value |-> value, position |-> position,
              steps |-> steps, notice |-> notice]]

VizInsertAtBeginning(L, d, v, text) ==
    LET value == Trim(text)
    IN  IF value = ""
        THEN Handled(L, d, NoCall, "insertAtBeginning", text, NoValue,
                     <<"alert">>, Notice("Please enter a value", 0, NoValue))
        ELSE LET L1 == insertAtBeginning(L, value)
                 d1 == updateComplexity(updateVisualization(d, L1, v))
             IN  Handled(L1, d1,
                         CallOn(L, "insertAtBeginning", value, 0, Undefined, 0),
                         "insertAtBeginning", text, NoValue,
                         <<"list.insertAtBeginning", "updateVisualization",
                           "updateComplexity", "clear:list-value">>,
                         NoNotice)

\* the insert-at-end handler without its updateVisualization call
VizInsertAtEnd_noRender(L, d, v, text) ==
    LET value == Trim(text)
    IN  IF value = ""
        THEN Handled(L, d, NoCall, "insertAtEnd", text, NoValue,
                     <<"alert">>, Notice("Please enter a value", 0, NoValue))
        ELSE LET L1 == insertAtEnd(L, value)
                 d1 == updateComplexity(d)
             IN  Handled(L1, d1,
                         CallOn(L, "insertAtEnd", value, 0, Undefined, 0),
                         "insertAtEnd", text, NoValue,
                         <<"list.insertAtEnd", "updateComplexity",
                           "clear:list-value">>,
                         NoNotice)

VizInsertAtEnd(L, d, v, text) ==
    LET value == Trim(text)
    IN  IF value = ""
        THEN Handled(L, d, NoCall, "insertAtEnd", text, NoValue,
                     <<"alert">>, Notice("Please enter a value", 0, NoValue))
        ELSE LET L1 == insertAtEnd(L, value)
                 d1 == updateComplexity(updateVisualization(d, L1, v))
             IN  Handled(L1, d1,
                         CallOn(L, "insertAtEnd", value, 0, Undefined, 0),
                         "insertAtEnd", text, NoValue,
                         <<"list.insertAtEnd", "updateVisualization",
                           "updateComplexity", "clear:list-value">>,
                         NoNotice)

\* the insert-at-position handler without the isNaN(position) test
VizInsertAtPosition_noNaNTest(L, d, v, text, ptext) ==
    LET value == Trim(text)
    IN  IF value = ""
        THEN Handled(L, d, NoCall, "insertAtPosition", text, ptext,
                     <<"alert">>,
                     Notice("Please enter both value and position", 0, NoValue))
        ELSE LET position == IF ParsesToNaN(ptext) THEN 0 - 1 ELSE ParseInt(ptext)
                 L1 == insertAtPosition(L, value, position)
                 d1 == updateComplexity(updateVisualization(d, L1, v))
             IN  Handled(L1, d1,
                         CallOn(L, "insertAtPosition", value, position, Undefined, 0),
                         "insertAtPosition", text, ptext,
                         <<"list.insertAtPosition", "updateVisualization",
                           "updateComplexity", "clear:list-value",
                           "clear:list-position">>,
                         NoNotice)

VizInsertAtPosition(L, d, v, text, ptext) ==
    LET value == Trim(text)
    IN  IF value = "" \/ ParsesToNaN(ptext)
        THEN Handled(L, d, NoCall, "insertAtPosition", text, ptext,
                     <<"alert">>,
                     Notice("Please enter both value and position", 0, NoValue))
        ELSE LET position == ParseInt(ptext)
                 L1 == insertAtPosition(L, value, position)
                 d1 == updateComplexity(updateVisualization(d, L1, v))
             IN  Handled(L1, d1,
                         CallOn(L, "insertAtPosition", value, position, Undefined, 0),
                         "insertAtPosition", text, ptext,
                         <<"list.insertAtPosition", "updateVisualization",
                           "updateComplexity", "clear:list-value",
                           "clear:list-position">>,
                         NoNotice)

\* the delete-from-beginning handler testing `deleted === undefined`
VizDeleteFromBeginning_undefinedTest(L, d, v) ==
    LET r == deleteFromBeginning(L)
        call == CallOn(L, "deleteFromBeginning", NoValue, 0, r.ret, 0)
    IN  Handled(r.list, updateComplexity(updateVisualization(d, r.list, v)),
                call, "deleteFromBeginning", NoValue, NoValue,
                <<"list.deleteFromBeginning", "updateVisualization",
                  "updateComplexity", "alert">>,
                Notice("Deleted", 0, r.ret))

VizDeleteFromBeginning(L, d, v) ==
    LET r == deleteFromBeginning(L)
        call == CallOn(L, "deleteFromBeginning", NoValue, 0, r.ret, 0)
    IN  IF r.ret = NullRet
        THEN Handled(r.list, d, call, "deleteFromBeginning", NoValue, NoValue,
                     <<"list.deleteFromBeginning", "alert">>,
                     Notice("List is empty!", 0, NoValue))
        ELSE Handled(r.list, updateComplexity(updateVisualization(d, r.list, v)),
                     call, "deleteFromBeginning", NoValue, NoValue,
                     <<"list.deleteFromBeginning", "updateVisualization",
                       "updateComplexity", "alert">>,
                     Notice("Deleted", 0, r.ret))

VizDeleteFromEnd(L, d, v) ==
    LET r == deleteFromEnd(L)
        call == CallOn(L, "deleteFromEnd", NoValue, 0, r.ret, 0)
    IN  IF r.ret = NullRet
        THEN Handled(r.list, d, call, "deleteFromEnd", NoValue, NoValue,
                     <<"list.deleteFromEnd", "alert">>,
                     Notice("List is empty!", 0, NoValue))
        ELSE Handled(r.list, updateComplexity(updateVisualization(d, r.list, v)),
                     call, "deleteFromEnd", NoValue, NoValue,
                     <<"list.deleteFromEnd", "updateVisualization",
                       "updateComplexity", "alert">>,
                     Notice("Deleted", 0, r.ret))

\* the delete-at-position handler returning on null without an alert
VizDeleteAtPosition_silentNull(L, d, v, ptext) ==
    IF ParsesToNaN(ptext)
    THEN Handled(L, d, NoCall, "deleteAtPosition", NoValue, ptext,
                 <<"alert">>, Notice("Please enter a position", 0, NoValue))
    ELSE LET position == ParseInt(ptext)
             r == deleteAtPosition(L, position)
             call == CallOn(L, "deleteAtPosition", NoValue, position, r.ret, 0)
         IN  IF r.ret = NullRet
             THEN Handled(r.list, d, call, "deleteAtPosition", NoValue, ptext,
                          <<"list.deleteAtPosition">>, NoNotice)
             ELSE Handled(r.list,
                          updateComplexity(updateVisualization(d, r.list, v)),
                          call, "deleteAtPosition", NoValue, ptext,
                          <<"list.deleteAtPosition", "updateVisualization",
                            "updateComplexity", "alert", "clear:list-position">>,
                          Notice("Deleted", 0, r.ret))

VizDeleteAtPosition(L, d, v, ptext) ==
    IF ParsesToNaN(ptext)
    THEN Handled(L, d, NoCall, "deleteAtPosition", NoValue, ptext,
                 <<"alert">>, Notice("Please enter a position", 0, NoValue))
    ELSE LET position == ParseInt(ptext)
             r == deleteAtPosition(L, position)
             call == CallOn(L, "deleteAtPosition", NoValue, position, r.ret, 0)
         IN  IF r.ret = NullRet
             THEN Handled(r.list, d, call, "deleteAtPosition", NoValue, ptext,
                          <<"list.deleteAtPosition", "alert">>,
                          Notice("Invalid position or list is empty!", 0, NoValue))
             ELSE Handled(r.list,
                          updateComplexity(updateVisualization(d, r.list, v)),
                          call, "deleteAtPosition", NoValue, ptext,
                          <<"list.deleteAtPosition", "updateVisualization",
                            "updateComplexity", "alert", "clear:list-position">>,
                          Notice("Deleted", 0, r.ret))

VizSearch(L, d, v, text) ==
    LET value == Trim(text)
    IN  IF value = ""
        THEN Handled(L, d, NoCall, "search", text, NoValue,
                     <<"alert">>,
                     Notice("Please enter a value to search", 0, NoValue))
        ELSE LET r == searchCall(L, value)
                 position == r.ret
                 call == CallOn(L, "search", value, 0, Undefined, position)
             IN  IF position = NotFound
                 THEN Handled(r.list, updateComplexity(d), call,
                              "search", text, NoValue,
                              <<"list.search", "alert", "updateComplexity">>,
                              Notice("not found in the list", 0, value))
                 ELSE Handled(r.list,
                              updateComplexity(highlightNode(d, position)), call,
                              "search", text, NoValue,
                              <<"list.search", "alert", "highlightNode",
                                "updateComplexity">>,
                              Notice("found at position", position, value))

\* ----------------------------------------------------------------- main.js
\* Sidebar entries: the two list structures and one of the other visualizers.
Structures == {"stack", "singly-linked-list", "doubly-linked-list"}
IsListStructure(structure) ==
    structure \in {"singly-linked-list", "doubly-linked-list"}

\* The init of a visualizer other than the list's: it fills the panels it is
\* given with its own controls and drawing.
OtherVisualizerInit(d) ==
    [d EXCEPT !.ops = "other", !.area = "other", !.boxes = <<>>,
              !.complexity = "other"]

\* initializeStructure(structure): the switch over the structure names
initializeStructure(d, L, v, ts, animationSpeed, structure) ==
    CASE structure = "singly-linked-list" ->
             VisualizerInit(d, L, ts, animationSpeed, FALSE)
      [] structure = "doubly-linked-list" ->
             VisualizerInit(d, L, ts, animationSpeed, TRUE)
      [] OTHER ->
             [list |-> L, viz |-> v, dom |-> OtherVisualizerInit(d), travs |-> ts]

\* switchStructure(structure): empty both panels, then initialize
switchStructure(d, L, v, ts, animationSpeed, structure) ==
    LET d1 == [d EXCEPT !.area = "blank", !.boxes = <<>>, !.ops = "blank"]
    IN  initializeStructure(d1, L, v, ts, animationSpeed, structure)

\* clearBtn click handler
clearVisualization(d) ==
    [d EXCEPT !.area = "blank", !.boxes = <<>>, !.complexity = "blank"]

\* ------------------------------------------------------------ page events
\* The page once DOMContentLoaded has run: main.js has switched to the stack,
\* LinkedListVisualizer has not been initialized (list is a placeholder).
InitPage ==
    /\ shell = [currentStructure |-> "stack", animationSpeed |-> DefaultSpeed]
    /\ list = LinkedList(FALSE)
    /\ viz = NoViz
    /\ dom = OtherVisualizerInit(NoDom)
    /\ log = NoLog
    /\ travs = <<>>
    /\ chat = NoChat
    /\ last = NoCall
    /\ prior = NoCall
    /\ ref = <<>>

\* The list's buttons exist while the list's panel is in the page.
ListPanelShown == dom.ops = "list"

UICanAllocate == Len(list.data) < MaxUINodes

\* Bookkeeping on the suspended traversals: another handler has run since.
Disturb(ts) == [i \in 1..Len(ts) |-> [ts[i] EXCEPT !.alone = FALSE]]

\* A click handler has run to its end.
Apply(r) ==
    /\ list' = r.list
    /\ dom' = r.dom
    /\ last' = r.call
    /\ log' = r.log
    /\ prior' = NoCall
    /\ travs' = Disturb(travs)
    /\ UNCHANGED <<ref, shell, viz, chat>>

ClickInsertAtBeginning ==
    /\ ListPanelShown
    /\ \E text \in ValueTexts :
           /\ Trim(text) # "" => UICanAllocate
           /\ Apply(VizInsertAtBeginning(list, dom, viz, text))

\* click on #insert-end with one of `texts` in #list-value
InsertAtEndOf(texts) ==
    /\ ListPanelShown
    /\ \E text \in texts :
           /\ Trim(text) # "" => UICanAllocate
           /\ Apply(VizInsertAtEnd(list, dom, viz, text))

ClickInsertAtEnd == InsertAtEndOf(ValueTexts)

ClickInsertAtPosition ==
    /\ ListPanelShown
    /\ \E text \in ValueTexts, ptext \in PositionTexts :
           /\ Trim(text) # "" => UICanAllocate
           /\ Apply(VizInsertAtPosition(list, dom, viz, text, ptext))

ClickDeleteFromBeginning ==
    /\ ListPanelShown
    /\ Apply(VizDeleteFromBeginning(list, dom, viz))

ClickDeleteFromEnd ==
    /\ ListPanelShown
    /\ Apply(VizDeleteFromEnd(list, dom, viz))

ClickDeleteAtPosition ==
    /\ ListPanelShown
    /\ \E ptext \in PositionTexts :
           Apply(VizDeleteAtPosition(list, dom, viz, ptext))

\* click on #search-btn with one of `texts` in #list-value
SearchOf(texts) ==
    /\ ListPanelShown
    /\ \E text \in texts : Apply(VizSearch(list, dom, viz, text))

ClickSearch == SearchOf(ValueTexts)

ShellEvent(handler, structure, r) ==
    /\ list' = r.list
    /\ viz' = r.viz
    /\ dom' = r.dom
    /\ travs' = Disturb(r.travs)
    /\ shell' = [shell EXCEPT !.currentStructure = structure]
    /\ log' = [NoLog EXCEPT !.handler = handler, !.value = structure]
    /\ last' = NoCall
    /\ prior' = NoCall
    /\ UNCHANGED <<ref, chat>>

\* click on a sidebar link
ClickSidebarLink ==
    \E structure \in Structures :
        ShellEvent("switchStructure", structure,
                   switchStructure(dom, list, viz, travs,
                                   shell.animationSpeed, structure))

\* resetBtn click: currentStructure is set from the first switch on
ClickReset ==
    ShellEvent("reset", shell.currentStructure,
               initializeStructure(dom, list, viz, travs,
                                   shell.animationSpeed, shell.currentStructure))

ClickClear ==
    /\ dom' = clearVisualization(dom)
    /\ log' = [NoLog EXCEPT !.handler = "clear"]
    /\ last' = NoCall
    /\ prior' = NoCall
    /\ travs' = Disturb(travs)
    /\ UNCHANGED <<list, ref, shell, viz, chat>>

\* click on #traverse-btn: traverse() runs up to its first await
ClickTraverse ==
    /\ ListPanelShown
    /\ list.head # NULL => Len(travs) < MaxTraversals
    /\ LET r == traverse(list, dom, Disturb(travs), viz)
       IN  /\ dom' = r.dom
           /\ travs' = r.travs
           /\ log' = r.log
    /\ last' = NoCall
    /\ prior' = NoCall
    /\ UNCHANGED <<list, ref, shell, viz, chat>>

\* A pending timeout fires (timers of equal delay fire in the order they
\* were set): traverse() runs from its await to the next one, or to its end.
TimerFires ==
    /\ \E i \in 1..Len(travs) :
           /\ CanFire(travs, i)
           /\ LET r == resume(list, dom, travs, i, viz)
              IN  /\ dom' = r.dom
                  /\ travs' = r.travs
                  /\ log' = r.log
    /\ last' = NoCall
    /\ prior' = NoCall
    /\ UNCHANGED <<list, ref, shell, viz, chat>>

\* What the speed slider can be set to.
Speeds == {100, DefaultSpeed}

\* speedSlider input handler: animationSpeed = parseInt(this.value)
MoveSpeedSlider ==
    /\ \E speed \in Speeds : shell' = [shell EXCEPT !.animationSpeed = speed]
    /\ log' = [NoLog EXCEPT !.handler = "speed"]
    /\ last' = NoCall
    /\ prior' = NoCall
    /\ travs' = Disturb(travs)
    /\ UNCHANGED <<list, ref, viz, dom, chat>>

NextUI ==
    \/ ClickInsertAtBeginning
    \/ ClickInsertAtEnd
    \/ ClickInsertAtPosition
    \/ ClickDeleteFromBeginning
    \/ ClickDeleteFromEnd
    \/ ClickDeleteAtPosition
    \/ ClickSearch
    \/ ClickSidebarLink
    \/ ClickReset
    \/ ClickClear

SpecUI == InitPage /\ [][NextUI]_vars

\* The page with the traverse button and its timers, next to the controls
\* that build a list, change it, replace it and blank the drawing.  What a
\* traversal does is independent of the node values, so one value is typed.
AnimTexts == {" ", "a"}

AppendNode == InsertAtEndOf(AnimTexts)

SearchNode == SearchOf(AnimTexts)

NextAnim ==
    \/ ClickSidebarLink
    \/ AppendNode
    \/ ClickDeleteFromBeginning
    \/ SearchNode
    \/ ClickReset
    \/ ClickClear
    \/ ClickTraverse
    \/ TimerFires

SpecAnim == InitPage /\ [][NextAnim]_vars

\* The same page when every timeout that is set fires in the end: a pending
\* setTimeout is run by the event loop however many clicks come in between.
SpecAnimLive == InitPage /\ [][NextAnim]_vars /\ WF_vars(TimerFires)

\* The page with the speed slider next to the traverse button.
NextSpeed ==
    \/ ClickSidebarLink
    \/ AppendNode
    \/ ClickReset
    \/ MoveSpeedSlider
    \/ ClickTraverse
    \/ TimerFires

SpecSpeed == InitPage /\ [][NextSpeed]_vars

\* ------------------------------------------------ positional operations
\* The engine driven through the operations that take a position or remove
\* a node, with every position in Positions.
NextPositional ==
    \/ InsertAtPosition
    \/ DeleteFromBeginning
    \/ DeleteFromEnd
    \/ DeleteAtPosition

SpecPositional == Init /\ [][NextPositional]_vars

\* -------------------------------------------------------------- AIChatBot
MaxSends == 2        \* user messages sent in one chat

\* What #chat-input may hold when Send is clicked, and what the endpoint may
\* answer.
ChatTexts == {" ", "a", " b "}
Replies == {"ok", "a<b"}

\* escapeHtml on those texts
escapeHtml(text) == IF text = "a<b" THEN "a&lt;b" ELSE text

\* addMessageToChat(sender, message, isLoading): one more .chat-message
addMessageToChat(messages, sender, message, isLoading) ==
    Append(messages, [sender |-> sender, text |-> escapeHtml(message),
                      loading |-> isLoading])

\* removeLastMessage(): messagesContainer.lastChild.remove()
removeLastMessage(messages) ==
    IF messages = <<>> THEN messages ELSE SubSeq(messages, 1, Len(messages) - 1)

\* sendMessage() from the click to `await fetch(...)`
sendMessage(c, text) ==
    LET userMessage == Trim(text)
    IN  IF userMessage = ""
        THEN c
        ELSE [messages |-> addMessageToChat(
                               addMessageToChat(c.messages, "user", userMessage, FALSE),
                               "bot", "Thinking...", TRUE),
              isLoading |-> TRUE,
              pending |-> Append(c.pending, [message |-> userMessage,
                                             stage |-> "fetch"]),
              sent |-> c.sent + 1]

WithoutCall(c, i) ==
    [k \in 1..(Len(c.pending) - 1) |->
        IF k < i THEN c.pending[k] ELSE c.pending[k + 1]]

\* the end of sendMessage(): the placeholder is removed, the reply or the
\* error text is added, isLoading is reset
finishMessage(c, i, message) ==
    [c EXCEPT !.messages = addMessageToChat(removeLastMessage(c.messages),
                                            "bot", message, FALSE),
              !.isLoading = FALSE,
              !.pending = WithoutCall(c, i)]

\* The chat panel right after `new AIChatBot()`.
InitChat ==
    /\ list = LinkedList(FALSE)
    /\ last = NoCall
    /\ prior = NoCall
    /\ ref = <<>>
    /\ Standalone

ChatStep(c) ==
    /\ chat' = c
    /\ UNCHANGED <<list, last, prior, ref, shell, viz, dom, log, travs>>

\* click on #send-btn, or Ctrl+Enter in #chat-input
SendMessage ==
    \E text \in ChatTexts :
        /\ Trim(text) # "" => chat.sent < MaxSends
        /\ ChatStep(sendMessage(chat, text))

\* fetch() settles for the i-th call in flight: with a response that is ok
\* (the call goes on to `await response.json()`), or with one that is not,
\* or with a rejection (the call goes to its catch block)
FetchSettles ==
    \E i \in 1..Len(chat.pending) :
        /\ chat.pending[i].stage = "fetch"
        /\ \/ ChatStep([chat EXCEPT !.pending[i].stage = "json"])
           \/ ChatStep(finishMessage(chat, i, "Error"))

\* response.json() settles for the i-th call in flight: with a body that
\* holds a reply, or with one that does not (the call goes to its catch block)
BodyArrives ==
    \E i \in 1..Len(chat.pending) :
        /\ chat.pending[i].stage = "json"
        /\ \/ \E botMessage \in Replies :
                  ChatStep(finishMessage(chat, i, botMessage))
           \/ ChatStep(finishMessage(chat, i, "Error"))

NextChat ==
    \/ SendMessage
    \/ FetchSettles
    \/ BodyArrives

SpecChat == InitChat /\ [][NextChat]_vars

\* ------------------------------------------- search over mixed payloads
\* Lists holding strings and numbers, searched for strings and numbers.
MaxMixedLen == 2
MixedValues == {"5", "#5", "5.0", "a", "#7"}

RECURSIVE BuildList(_, _)
BuildList(L, s) ==
    IF s = <<>> THEN L ELSE BuildList(insertAtEnd(L, Head(s)), Tail(s))

InitMixed ==
    /\ \E isDoubly \in BOOLEAN, n \in 0..MaxMixedLen :
           \E s \in [1..n -> MixedValues] :
               list = BuildList(LinkedList(isDoubly), s)
    /\ last = [op |-> "constructor", val |-> NoValue, pos |-> 0,
               ret |-> Undefined, idx |-> 0, arr |-> <<>>, pre |-> list]
    /\ prior = NoCall
    /\ ref = <<>>
    /\ Standalone

SearchMixed == SearchIn(MixedValues)

NextMixed == SearchMixed

SpecMixed == InitMixed /\ [][NextMixed]_vars

\* ------------------------------------------------------ derived notions
\* The nodes met from head along next, in order (at most one more than the
\* heap holds, so the walk is defined on any heap).
RECURSIVE ChainFrom(_, _, _)
ChainFrom(L, n, fuel) ==
    IF n = NULL \/ fuel = 0 THEN <<>>
    ELSE <<n>> \o ChainFrom(L, L.next[n], fuel - 1)

Chain(L) == ChainFrom(L, L.head, Len(L.data) + 1)

Arr == toArray(list)
PreArr == toArray(last.pre)
Front(s) == SubSeq(s, 1, Len(s) - 1)
RemoveAt(s, p) == SubSeq(s, 1, p) \o SubSeq(s, p + 2, Len(s))
InsertedAt(s, p, v) == SubSeq(s, 1, p) \o <<v>> \o SubSeq(s, p + 1, Len(s))

\* ----------------------------------------------------------------- claims

\* C1: after every call of a sequence of insert/delete calls (positions
\* non-negative) on an initially empty list, toArray() equals the sequence
\* held by the array reference model given the same calls.
C1_MatchesArrayModel == toArray(list) = ref

C1_Witness ==
    /\ last.op = "deleteAtPosition"
    /\ last.pos >= 1
    /\ last.ret # NullRet
    /\ Len(ref) = 2

\* C2: in doubly-linked mode, in every state a caller can observe, each node
\* b that follows a node a on the chain from head has b.prev = a, and
\* head.prev is null when the list is non-empty.
C2_DoublyLinked ==
    list.isDoubly =>
        LET c == Chain(list)
        IN  /\ list.head # NULL => list.prev[list.head] = NULL
            /\ \A i \in 1..(Len(c) - 1) : list.prev[c[i + 1]] = c[i]

C2_Witness ==
    /\ list.isDoubly
    /\ last.op = "deleteAtPosition"
    /\ last.pos >= 1
    /\ last.pos < Len(PreArr) - 1
    /\ Len(Chain(list)) >= 2

\* C3: following next from head reaches null within as many steps as there
\* are nodes and meets no node twice, so each node has one 0-based position.
C3_Acyclic ==
    LET c == Chain(list)
    IN  /\ Len(c) <= Len(list.data)
        /\ \A i, j \in 1..Len(c) : i # j => c[i] # c[j]

C3_Witness ==
    /\ last.op = "insertAtPosition"
    /\ Len(list.data) = 3
    /\ Len(Chain(list)) = 2
    /\ Len(Chain(last.pre)) = 1

\* C4: insertAtPosition(v, p) immediately followed by deleteAtPosition(p)
\* leaves toArray() as it was before the two calls.
C4_InsertDeleteRoundTrip ==
    (/\ last.op = "deleteAtPosition"
     /\ prior.op = "insertAtPosition"
     /\ last.pos = prior.pos)
        => toArray(list) = toArray(prior.pre)

C4_Witness ==
    /\ last.op = "deleteAtPosition"
    /\ prior.op = "insertAtPosition"
    /\ last.pos = prior.pos
    /\ last.pos >= 1
    /\ last.pos < Len(toArray(prior.pre))

\* C5: insertAtPosition(v, p) with p greater than the length inserts nothing
\* and returns normally: head, the next/prev link and the payload of every
\* node that existed, and toArray() are as before.
C5_InsertBeyondLengthIsNoOp ==
    (last.op = "insertAtPosition" /\ last.pos > Len(PreArr)) =>
        /\ last.ret = Undefined
        /\ list.head = last.pre.head
        /\ Arr = PreArr
        /\ Chain(list) = Chain(last.pre)
        /\ \A n \in 1..Len(last.pre.data) :
               /\ list.next[n] = last.pre.next[n]
               /\ list.prev[n] = last.pre.prev[n]
               /\ list.data[n] = last.pre.data[n]

C5_Witness ==
    /\ last.op = "insertAtPosition"
    /\ Len(PreArr) = 2
    /\ last.pos > Len(PreArr)

\* C6: deleteAtPosition(p) on a list of length n returns the value at index p
\* and removes exactly that index when 0 <= p < n; when p >= n it returns
\* null and leaves the list unchanged.
C6_DeleteAtPosition ==
    (last.op = "deleteAtPosition" /\ last.pos >= 0) =>
        IF last.pos < Len(PreArr)
        THEN /\ last.ret = PreArr[last.pos + 1]
             /\ Arr = RemoveAt(PreArr, last.pos)
        ELSE /\ last.ret = NullRet
             /\ list = last.pre

C6_Witness ==
    /\ last.op = "deleteAtPosition"
    /\ last.pos = 1
    /\ Len(PreArr) = 3
    /\ last.ret = PreArr[2]

\* C7: deleteFromBeginning / deleteFromEnd return null exactly when the list
\* is empty and leave it empty; otherwise they return the first / last value
\* and remove that one node, the others keeping their order.
C7_DeleteAtEnds ==
    /\ last.op = "deleteFromBeginning" =>
           /\ (last.ret = NullRet) <=> (PreArr = <<>>)
           /\ PreArr = <<>> => (Arr = <<>> /\ list = last.pre)
           /\ PreArr # <<>> => (last.ret = Head(PreArr) /\ Arr = Tail(PreArr))
    /\ last.op = "deleteFromEnd" =>
           /\ (last.ret = NullRet) <=> (PreArr = <<>>)
           /\ PreArr = <<>> => (Arr = <<>> /\ list = last.pre)
           /\ PreArr # <<>> =>
                  (last.ret = PreArr[Len(PreArr)] /\ Arr = Front(PreArr))

C7_Witness ==
    /\ last.op = "deleteFromEnd"
    /\ Len(PreArr) = 2
    /\ last.ret = PreArr[2]
    /\ Len(Arr) = 1

\* C8: insertAtBeginning(v) / insertAtEnd(v) always grow the list by one,
\* with v first / last and the previous values in their previous order.
C8_InsertAtEnds ==
    /\ last.op = "insertAtBeginning" => Arr = <<last.val>> \o PreArr
    /\ last.op = "insertAtEnd" => Arr = Append(PreArr, last.val)

C8_Witness ==
    /\ ~list.isDoubly
    /\ last.op = "insertAtBeginning"
    /\ Len(PreArr) = 2
    /\ Len(Arr) = 3

\* C9: insertAtPosition(v, p) with 0 <= p <= length puts v at index p and
\* moves the values from index p on one place toward the tail; with p = 0
\* it does what insertAtBeginning(v) does, giving [v] on an empty list.
C9_InsertAtPosition ==
    (last.op = "insertAtPosition" /\ 0 <= last.pos /\ last.pos <= Len(PreArr)) =>
        /\ Arr = InsertedAt(PreArr, last.pos, last.val)
        /\ last.pos = 0 => list = insertAtBeginning(last.pre, last.val)
        /\ (last.pos = 0 /\ PreArr = <<>>) => Arr = <<last.val>>

C9_Witness ==
    /\ last.op = "insertAtPosition"
    /\ last.pos = 1
    /\ Len(PreArr) = 2
    /\ Arr[2] = last.val
    /\ Arr[3] = PreArr[2]

\* C10: search(v) returns the smallest index whose value equals v, and -1
\* exactly when no value of the list equals v.
C10_SearchFirstMatch ==
    last.op = "search" =>
        LET hits == {i \in 0..(Len(Arr) - 1) : Arr[i + 1] = last.val}
        IN  IF hits = {}
            THEN last.idx = NotFound
            ELSE /\ last.idx \in hits
                 /\ \A j \in hits : last.idx <= j

C10_Witness ==
    /\ last.op = "search"
    /\ Len(Arr) = 3
    /\ last.idx = 1
    /\ Arr[3] = last.val

\* C11: search and toArray change neither head nor any node's value, next
\* or prev, and two consecutive calls with the same argument return the same.
C11_ReadsAreReadOnly ==
    /\ last.op \in {"search", "toArray"} => list = last.pre
    /\ (last.op = "search" /\ prior.op = "search" /\ last.val = prior.val)
           => last.idx = prior.idx
    /\ (last.op = "toArray" /\ prior.op = "toArray") => last.arr = prior.arr

C11_Witness ==
    /\ last.op = "search"
    /\ prior.op = "search"
    /\ last.val = prior.val
    /\ last.idx >= 1
    /\ Len(Arr) >= 2

\* C12: search matches a stored numeric string against a number of the same
\* numeric value, and a stored number against such a string: the position
\* returned is that of the first payload that is the searched one or its
\* numeric counterpart of the other type.
Counterparts(x, y) ==
    /\ IsNumber(x) # IsNumber(y)
    /\ IsNumeric(x) /\ IsNumeric(y)
    /\ ToNumber(x) = ToNumber(y)

C12_SearchCoerces ==
    last.op = "search" =>
        LET hits == {i \in 0..(Len(Arr) - 1) :
                        Arr[i + 1] = last.val \/ Counterparts(Arr[i + 1], last.val)}
        IN  IF hits = {}
            THEN last.idx = NotFound
            ELSE /\ last.idx \in hits
                 /\ \A j \in hits : last.idx <= j

C12_Witness ==
    /\ last.op = "search"
    /\ last.val = "#5"
    /\ Arr = <<"a", "5">>
    /\ last.idx = 1

\* ------------------------------------------------- the page: derived notions
ReadsValue(handler) ==
    handler \in {"insertAtBeginning", "insertAtEnd", "insertAtPosition", "search"}
ReadsPosition(handler) == handler \in {"insertAtPosition", "deleteAtPosition"}
UserActions ==
    {"insertAtBeginning", "insertAtEnd", "insertAtPosition",
     "deleteFromBeginning", "deleteFromEnd", "deleteAtPosition", "search"}

\* The most recent handler was a user action whose inputs pass validation.
InputValid(l) ==
    /\ l.handler \in UserActions
    /\ ReadsValue(l.handler) => Trim(l.value) # ""
    /\ ReadsPosition(l.handler) => ~ParsesToNaN(l.position)

EngineStep(handler) ==
    CASE handler = "insertAtBeginning" -> "list.insertAtBeginning"
      [] handler = "insertAtEnd" -> "list.insertAtEnd"
      [] handler = "insertAtPosition" -> "list.insertAtPosition"
      [] handler = "deleteFromBeginning" -> "list.deleteFromBeginning"
      [] handler = "deleteFromEnd" -> "list.deleteFromEnd"
      [] handler = "deleteAtPosition" -> "list.deleteAtPosition"
      [] handler = "search" -> "list.search"

ClearSteps(handler) ==
    (IF ReadsValue(handler) THEN <<"clear:list-value">> ELSE <<>>)
        \o (IF ReadsPosition(handler) THEN <<"clear:list-position">> ELSE <<>>)

IsAlert(step) == step = "alert"
NotAlert(step) == step # "alert"

BoxData(d) == [i \in 1..Len(d.boxes) |-> d.boxes[i].data]
Highlighted(d) == {i \in 0..(Len(d.boxes) - 1) : d.boxes[i + 1].highlighted}

\* The area shows the list L as updateVisualization draws it.
Shows(d, L) ==
    /\ BoxData(d) = toArray(L)
    /\ d.area = (IF toArray(L) = <<>> THEN "message" ELSE "nodes")
    /\ Highlighted(d) = {}

\* C13: an insert or search whose value is blank after trimming, and an
\* insert-at-position or delete-at-position whose position does not parse,
\* shows a notice and does nothing else: no engine call, the list unchanged.
C13_InvalidInputAborts ==
    [][ ((ReadsValue(log'.handler) /\ Trim(log'.value) = "")
           \/ (ReadsPosition(log'.handler) /\ ParsesToNaN(log'.position)))
        => /\ log'.steps = <<"alert">>
           /\ log'.notice # NoNotice
           /\ last' = NoCall
           /\ list' = list ]_vars

C13_Witness ==
    /\ log.handler = "insertAtPosition"
    /\ Trim(log.value) = "a"
    /\ ParsesToNaN(log.position)
    /\ log.steps = <<"alert">>
    /\ Len(Arr) >= 1

\* C14 as stated: every user action with valid input calls the engine, then
\* re-renders the visualization and the complexity notice, then clears the
\* inputs it used, in that order.
C14_AsStated ==
    InputValid(log) =>
        SelectSeq(log.steps, NotAlert)
            = <<EngineStep(log.handler), "updateVisualization", "updateComplexity">>
                  \o ClearSteps(log.handler)

\* C14 amended: the three inserts with valid input, and the three deletes
\* when the engine returns a value, call the engine, re-render the
\* visualization and the complexity notice and then clear the inputs they
\* used (a delete reports the value before clearing).  A delete that gets
\* null only shows a notice.  Search calls the engine, shows its notice,
\* highlights when found and refreshes only the complexity notice: it does
\* not re-render and does not clear the value input.
C14_HandlerSteps ==
    InputValid(log) =>
        /\ last.op = log.handler
        /\ log.handler \in {"insertAtBeginning", "insertAtEnd", "insertAtPosition"} =>
               /\ log.steps = <<EngineStep(log.handler), "updateVisualization",
                                "updateComplexity">> \o ClearSteps(log.handler)
               /\ Shows(dom, list)
               /\ dom.complexity = "list"
        /\ (log.handler \in {"deleteFromBeginning", "deleteFromEnd", "deleteAtPosition"}
               /\ last.ret # NullRet) =>
               /\ log.steps = <<EngineStep(log.handler), "updateVisualization",
                                "updateComplexity", "alert">> \o ClearSteps(log.handler)
               /\ Shows(dom, list)
               /\ dom.complexity = "list"
        /\ (log.handler \in {"deleteFromBeginning", "deleteFromEnd", "deleteAtPosition"}
               /\ last.ret = NullRet) =>
               log.steps = <<EngineStep(log.handler), "alert">>
        /\ log.handler = "search" =>
               /\ log.steps = IF last.idx = NotFound
                              THEN <<"list.search", "alert", "updateComplexity">>
                              ELSE <<"list.search", "alert", "highlightNode",
                                     "updateComplexity">>
               /\ dom.complexity = "list"

C14_Witness ==
    /\ log.handler = "deleteAtPosition"
    /\ last.ret # NullRet
    /\ Len(Arr) = 1
    /\ log.steps[Len(log.steps)] = "clear:list-position"

\* C15: delete-from-beginning / delete-from-end on an empty list show the
\* 'List is empty!' notice, delete-at-position that removes nothing shows the
\* 'Invalid position' notice, and the list is afterwards what it was.
C15_DeleteNotices ==
    /\ (log.handler \in {"deleteFromBeginning", "deleteFromEnd"}
           /\ toArray(last.pre) = <<>>) =>
           /\ log.notice.text = "List is empty!"
           /\ list = last.pre
    /\ (log.handler = "deleteAtPosition" /\ InputValid(log)
           /\ Len(toArray(deleteAtPosition(last.pre, last.pos).list))
                  = Len(toArray(last.pre))) =>
           /\ log.notice.text = "Invalid position or list is empty!"
           /\ list = last.pre

C15_Witness ==
    /\ log.handler = "deleteAtPosition"
    /\ log.notice.text = "Invalid position or list is empty!"
    /\ Len(Arr) >= 1

\* C16 as stated: an insert at a position beyond the length, a delete at a
\* position at or beyond it and a delete from an empty list each make the
\* engine return a sentinel that the binding turns into a notice.
C16_AsStated ==
    /\ (log.handler = "insertAtPosition" /\ InputValid(log)
           /\ last.pos > Len(PreArr)) =>
           (last.ret = NullRet /\ log.notice # NoNotice)
    /\ (log.handler = "deleteAtPosition" /\ InputValid(log)
           /\ last.pos >= Len(PreArr)) =>
           (last.ret = NullRet /\ log.notice # NoNotice)
    /\ (log.handler \in {"deleteFromBeginning", "deleteFromEnd"}
           /\ PreArr = <<>>) =>
           (last.ret = NullRet /\ log.notice # NoNotice)

\* C16 amended: a delete at a position at or beyond the length and a delete
\* from an empty list make the engine return null, which the binding turns
\* into a notice; an insert at a position beyond the length returns nothing
\* and the binding shows no notice: it re-renders the unchanged list and
\* clears its inputs as after any insert.
C16_NoOpReporting ==
    /\ (log.handler = "insertAtPosition" /\ InputValid(log)
           /\ last.pos > Len(PreArr)) =>
           /\ last.ret = Undefined
           /\ log.notice = NoNotice
           /\ Arr = PreArr
           /\ Shows(dom, list)
           /\ log.steps = <<"list.insertAtPosition", "updateVisualization",
                            "updateComplexity", "clear:list-value",
                            "clear:list-position">>
    /\ (log.handler = "deleteAtPosition" /\ InputValid(log)
           /\ last.pos >= Len(PreArr)) =>
           /\ last.ret = NullRet
           /\ SelectSeq(log.steps, IsAlert) = <<"alert">>
           /\ log.notice.text = "Invalid position or list is empty!"
    /\ (log.handler \in {"deleteFromBeginning", "deleteFromEnd"}
           /\ PreArr = <<>>) =>
           /\ last.ret = NullRet
           /\ SelectSeq(log.steps, IsAlert) = <<"alert">>
           /\ log.notice.text = "List is empty!"

C16_Witness ==
    /\ log.handler = "insertAtPosition"
    /\ InputValid(log)
    /\ last.pos > Len(PreArr)
    /\ Len(PreArr) >= 1
    /\ log.notice = NoNotice

\* C17: the search action never changes the list; when the value is found
\* at position N it reports N and exactly the box at index N is highlighted;
\* when it is not found it reports that and highlights nothing new.
C17_SearchReportsAndHighlights ==
    [][ (log'.handler = "search" /\ InputValid(log')) =>
            /\ list' = list
            /\ IF search(list, Trim(log'.value)) # NotFound
               THEN /\ log'.notice.text = "found at position"
                    /\ log'.notice.pos = search(list, Trim(log'.value))
                    /\ Highlighted(dom') = {search(list, Trim(log'.value))}
               ELSE /\ log'.notice.text = "not found in the list"
                    /\ Highlighted(dom') \subseteq Highlighted(dom) ]_vars

\* C20: after a switch to a list structure, or a reset while one is current,
\* the visualizer owns a fresh empty list of the requested mode, drawn as
\* empty; while a list structure is current the list has the mode that was
\* requested, and no engine call changes the mode of the list it is given.
RequestedMode == shell.currentStructure = "doubly-linked-list"

C20_FreshListOnSwitchAndReset ==
    /\ (log.handler \in {"switchStructure", "reset"}
           /\ IsListStructure(shell.currentStructure)) =>
           /\ list = LinkedList(RequestedMode)
           /\ viz.isDoubly = RequestedMode
           /\ Shows(dom, list)
    /\ IsListStructure(shell.currentStructure) => list.isDoubly = RequestedMode
    /\ last # NoCall => list.isDoubly = last.pre.isDoubly

C20_Witness ==
    /\ log.handler = "reset"
    /\ shell.currentStructure = "doubly-linked-list"
    /\ list = LinkedList(TRUE)
    /\ dom.area = "message"

\* C18: a traversal started on a list of n >= 1 nodes, with nothing else
\* happening while it runs, highlights 0, 1, ..., n-1, one position per
\* delay, and leaves no box highlighted after the last node; started on an
\* empty list it shows the 'List is empty!' notice and highlights nothing.
C18_TraversalHighlightsInOrder ==
    [][ /\ (log'.handler = "traverse" /\ travs = <<>>) =>
               IF Arr = <<>>
               THEN /\ log'.notice.text = "List is empty!"
                    /\ travs' = <<>>
                    /\ dom' = dom
               ELSE /\ Highlighted(dom') = {0}
                    /\ Len(travs') = 1
                    /\ travs'[1].position = 0
        /\ (log'.handler = "timer" /\ Len(travs) = 1 /\ travs[1].alone) =>
               IF travs[1].position + 1 < Len(Arr)
               THEN /\ Highlighted(dom') = {travs[1].position + 1}
                    /\ Len(travs') = 1
                    /\ travs'[1].position = travs[1].position + 1
                    /\ travs'[1].alone
               ELSE /\ Highlighted(dom') = {}
                    /\ travs' = <<>> ]_vars

\* C19: a click on Traverse while a traversal is in flight starts another
\* one: the calls already suspended stay suspended where they are, the new
\* call highlights index 0 and waits with them, and every timeout resumes
\* the call that has waited longest, so that all of them run.
C19_TraversalsOverlap ==
    [][ /\ (log'.handler = "traverse" /\ travs # <<>> /\ list.head # NULL) =>
               /\ Len(travs') = Len(travs) + 1
               /\ \A i \in 1..Len(travs) :
                      /\ travs'[i].position = travs[i].position
                      /\ travs'[i].current = travs[i].current
               /\ travs'[Len(travs')].position = 0
               /\ travs'[Len(travs')].current = list.head
               /\ Highlighted(dom') \subseteq {0}
               /\ dom.boxes # <<>> => Highlighted(dom') = {0}
        /\ (log'.handler = "timer" /\ Len(travs) >= 2) =>
               /\ \A i \in 2..Len(travs) : travs'[i - 1] = travs[i]
               /\ \/ Len(travs') = Len(travs) - 1
                  \/ /\ Len(travs') = Len(travs)
                     /\ travs'[Len(travs')].position = travs[1].position + 1 ]_vars

\* Two traversals in flight, the first already at index 1, and the second
\* has just moved the highlight back to index 0.
C19_Witness ==
    /\ log.handler = "traverse"
    /\ Len(travs) = 2
    /\ travs[1].live /\ travs[2].live
    /\ travs[1].position = 1
    /\ travs[2].position = 0
    /\ Highlighted(dom) = {0}

\* The timer step that resumes the i-th suspended call.
Resumes(i) ==
    /\ log'.handler = "timer"
    /\ i \in 1..Len(travs)
    /\ CanFire(travs, i)
    /\ dom' = resume(list, dom, travs, i, viz).dom
    /\ travs' = resume(list, dom, travs, i, viz).travs

\* C21: once the user has switched structures or reset, the remaining steps
\* of a traversal that was in flight have no visible effect: they leave the
\* page as it is.
C21_OrphanedStepsInvisible ==
    [][ \A i \in 1..Len(travs) :
            (Resumes(i) /\ ~travs[i].live) => dom' = dom ]_vars

\* C22: the delay a traversal step waits is the application-wide setting:
\* every timeout set by a traversal has the delay the speed control shows.
C22_StepsWaitSharedDelay ==
    [][ (log'.handler \in {"traverse", "timer"} /\ travs' # <<>>
             /\ "await" \in {log'.steps[k] : k \in 1..Len(log'.steps)}) =>
            travs'[Len(travs')].delay = shell'.animationSpeed ]_vars

\* The list is something every operation and the renderer can walk: head and
\* every link is null or a node, and the chain from head ends without
\* meeting a node twice.
IsRef(L, n) == n \in 0..Len(L.data)
Consistent(L) ==
    LET c == Chain(L)
    IN  /\ IsRef(L, L.head)
        /\ \A n \in 1..Len(L.data) : IsRef(L, L.next[n]) /\ IsRef(L, L.prev[n])
        /\ Len(c) <= Len(L.data)
        /\ \A i, j \in 1..Len(c) : i # j => c[i] # c[j]

\* C23: every list the operations leave is consistent, and in every
\* reachable list state, for every position (0, the length, beyond the
\* length, negative), no engine operation reads or writes a property of a
\* missing node.
C23_NoMissingNodeDereferenced ==
    /\ Consistent(list)
    /\ NULL \notin deleteFromBeginningReceivers(list)
    /\ NULL \notin deleteFromEndReceivers(list)
    /\ \A p \in Positions :
           /\ NULL \notin insertAtPositionReceivers(list, p)
           /\ NULL \notin deleteAtPositionReceivers(list, p)

C23_Witness ==
    /\ last.op = "insertAtPosition"
    /\ last.pos < 0
    /\ PreArr = <<>>
    /\ Consistent(list)

\* C24: while a list structure is the active one, the drawing is in step
\* with the list: the box values are toArray() and the placeholder message
\* is shown exactly when the list is empty.
C24_ProjectionSynchronized ==
    IsListStructure(shell.currentStructure) =>
        /\ BoxData(dom) = toArray(list)
        /\ (dom.area = "message") <=> (toArray(list) = <<>>)

\* C25: updateVisualization draws the placeholder and no box for an empty
\* list; otherwise one box per node in head-to-tail order, a connector
\* after every box but the last, and in doubly-linked mode `null` as prev
\* on the first box only and `null` as next on the last box only.
C25_RenderedBoxes ==
    LET d == updateVisualization(dom, list, viz)
        n == Len(toArray(list))
        boxes == d.boxes
    IN  IF n = 0
        THEN d.area = "message" /\ boxes = <<>>
        ELSE /\ d.area = "nodes"
             /\ BoxData(d) = toArray(list)
             /\ {i \in 1..Len(boxes) : boxes[i].arrow # ""} = 1..(n - 1)
             /\ viz.isDoubly =>
                    /\ {i \in 1..Len(boxes) : boxes[i].prev = "null"} = {1}
                    /\ {i \in 1..Len(boxes) : boxes[i].next = "null"} = {n}

C25_Witness ==
    /\ log.handler = "insertAtPosition"
    /\ viz.isDoubly
    /\ Len(dom.boxes) = 2
    /\ dom.boxes = updateVisualization(dom, list, viz).boxes

\* C26: a negative position is out of range: insertAtPosition and
\* deleteAtPosition with p < 0 leave the list as it was, and
\* deleteAtPosition returns null.
C26_NegativeIsOutOfRange ==
    (last.op \in {"insertAtPosition", "deleteAtPosition"} /\ last.pos < 0) =>
        /\ Arr = PreArr
        /\ last.op = "deleteAtPosition" => last.ret = NullRet

\* C27: at most one box is highlighted, whatever traversals are in flight
\* and whatever searches and mutations run between their steps.
C27_AtMostOneHighlight == Cardinality(Highlighted(dom)) <= 1

C27_Witness ==
    /\ Len(travs) = 2
    /\ log.handler = "search"
    /\ Cardinality(Highlighted(dom)) = 1
    /\ Len(dom.boxes) = 2

\* C28: when a step of a traversal of the current list highlights position
\* i, the node the traversal is visiting is the node at index i of the list.
C28_HighlightedIsVisited ==
    [][ \A i \in 1..Len(travs) :
            (Resumes(i) /\ travs[i].live /\ Len(travs') = Len(travs)) =>
                LET t == travs'[Len(travs')]
                    c == Chain(list)
                IN  /\ t.position < Len(c)
                    /\ c[t.position + 1] = t.current ]_vars

\* C29: when the timers keep firing and the user's actions come to an end,
\* every traversal that was started finishes, and the step that ends the
\* last of them leaves no box highlighted.
C29_TraversalsFinish ==
    /\ [][ (log'.handler = "timer" /\ Len(travs') < Len(travs)) =>
               Highlighted(dom') = {} ]_vars
    /\ (<>[][TimerFires]_vars) => <>[](travs = <<>>)

\* A suspended traversal of the current list whose node has been deleted,
\* next to one whose list has been replaced.
C29_Witness ==
    /\ Len(travs) = 2
    /\ ~travs[1].live
    /\ travs[2].live
    /\ \A k \in 1..Len(Chain(list)) : Chain(list)[k] # travs[2].current

\* C30: once no sendMessage request is in flight, the chat shows no
\* 'Thinking...' placeholder and, for the user messages sent, as many user
\* messages and as many bot replies or error messages.
C30_ChatSettles ==
    chat.pending = <<>> =>
        LET m == chat.messages
        IN  /\ \A k \in 1..Len(m) : ~m[k].loading
            /\ Cardinality({k \in 1..Len(m) : m[k].sender = "user"}) = chat.sent
            /\ Cardinality({k \in 1..Len(m) : m[k].sender = "bot"}) = chat.sent

====
